---- MODULE Spec2Model ----
(***************************************************************************)
(* A model of package wav (moutend/go-wav): the File object, its           *)
(* sequential Read / Write, the container codec (Unmarshal / Marshal) and  *)
(* the sample conversion (Int32s).                                         *)
(*                                                                         *)
(* Bytes are naturals 0..255 and byte slices are sequences.  uint16 and    *)
(* uint32 fields are naturals; every arithmetic step of the code is        *)
(* reduced with the width it has in Go.  An int32 is held by its four      *)
(* little-endian bytes until it is returned, since the checker's integers  *)
(* are 32-bit signed.  A run-time panic of the Go program (index out of    *)
(* range, integer divide by zero) is the flag panic of an operation's      *)
(* result; a panicked program takes no further step.                       *)
(***************************************************************************)
EXTENDS Integers, Sequences, FiniteSets, TLC

VARIABLES
    f,          \* the *File the program holds: a File record, or NilFile
    ret,        \* the last call: its operation, arguments and results
    origin,     \* how f was obtained: by &File{}, New or Unmarshal
    consumed,   \* the bytes Read has delivered since f was obtained
    panicked,   \* TRUE once a call has panicked
    decodes,    \* the number of Unmarshal calls made
    copy        \* the Files being copied into f, and which one is being read

vars == <<f, ret, origin, consumed, panicked, decodes, copy>>

\* a nil error, and a nil *File
Nil == "nil"
NilFile == [ nil |-> TRUE ]
EOF == "EOF"
Error == "error"

WAVE_FORMAT_PCM == 1
WAVE_FORMAT_EXTENSIBLE == 65534

(***************************************************************************)
(* Fixed-width arithmetic.                                                 *)
(***************************************************************************)
Min(a, b) == IF a < b THEN a ELSE b

\* uint16(x) of a Go int
U16(x) == x % 65536

\* a + b in uint32 (wraps at 2^32), computed on 16-bit halves
AddU32(a, b) ==
    LET lo == (a % 65536) + (b % 65536)
        hi == ((a \div 65536) + (b \div 65536) + (lo \div 65536)) % 65536
    IN  hi * 65536 + (lo % 65536)

\* the four little-endian bytes of a uint32
PutU32(x) == << x % 256, (x \div 256) % 256, (x \div 65536) % 256, (x \div 16777216) % 256 >>

\* the two little-endian bytes of a uint16
PutU16(x) == << x % 256, (x \div 256) % 256 >>

\* the uint32 / uint16 that little-endian bytes hold
GetU32(b) == b[1] + b[2] * 256 + b[3] * 65536 + b[4] * 16777216
GetU16(b) == b[1] + b[2] * 256

\* a * b in uint32 for a uint32 a and a uint16 b: schoolbook multiplication
\* of the bytes of a, the carry dropped after the fourth byte
MulU32(a, b) ==
    LET x  == PutU32(a)
        t1 == x[1] * b
        t2 == x[2] * b + (t1 \div 256)
        t3 == x[3] * b + (t2 \div 256)
        t4 == x[4] * b + (t3 \div 256)
    IN  GetU32(<< t1 % 256, t2 % 256, t3 % 256, t4 % 256 >>)

\* the int8 / int16 / int32 that little-endian bytes hold (two's complement)
Int8(b) == IF b[1] >= 128 THEN b[1] - 256 ELSE b[1]
Int16(b) == b[1] + 256 * Int8(<< b[2] >>)
Int32(b) == b[1] + b[2] * 256 + b[3] * 65536 + 16777216 * Int8(<< b[4] >>)

(***************************************************************************)
(* type File and its constructor.                                          *)
(***************************************************************************)
\* &File{}: the zero value
ZeroFile ==
    [ formatTag |-> 0, channels |-> 0, samplesPerSec |-> 0, avgBytesPerSec |-> 0,
      blockAlign |-> 0, bitsPerSample |-> 0, length |-> 0, data |-> << >>, offset |-> 0 ]

\* New with the block align taken from the bit depth alone
NewOneChannel(samplesPerSec, bitsPerSample, channels) ==
    IF bitsPerSample % 8 # 0
    THEN [ file |-> NilFile, err |-> Error ]
    ELSE [ file |-> [ ZeroFile EXCEPT
               !.formatTag = IF bitsPerSample > 16 THEN WAVE_FORMAT_EXTENSIBLE ELSE WAVE_FORMAT_PCM,
               !.samplesPerSec = samplesPerSec,
               !.channels = U16(channels),
               !.bitsPerSample = U16(bitsPerSample),
               !.blockAlign = U16(bitsPerSample) \div 8,
               !.avgBytesPerSec = MulU32(samplesPerSec, U16(bitsPerSample) \div 8) ],
           err |-> Nil ]

\* New with 16 bits counted as more than 16
NewFrom16(samplesPerSec, bitsPerSample, channels) ==
    IF bitsPerSample % 8 # 0
    THEN [ file |-> NilFile, err |-> Error ]
    ELSE [ file |-> [ ZeroFile EXCEPT
               !.formatTag = IF bitsPerSample >= 16 THEN WAVE_FORMAT_EXTENSIBLE ELSE WAVE_FORMAT_PCM,
               !.samplesPerSec = samplesPerSec,
               !.channels = U16(channels),
               !.bitsPerSample = U16(bitsPerSample),
               !.blockAlign = U16(U16(channels) * U16(bitsPerSample)) \div 8,
               !.avgBytesPerSec = MulU32(samplesPerSec, U16(U16(channels) * U16(bitsPerSample)) \div 8) ],
           err |-> Nil ]

\* New(samplesPerSec, bitsPerSample, channels): [file, err]
New(samplesPerSec, bitsPerSample, channels) ==
    LET formatTag == IF bitsPerSample > 16 THEN WAVE_FORMAT_EXTENSIBLE ELSE WAVE_FORMAT_PCM
        ch   == U16(channels)
        bits == U16(bitsPerSample)
        blockAlign == U16(ch * bits) \div 8
    IN  IF bitsPerSample % 8 # 0
        THEN [ file |-> NilFile, err |-> Error ]
        ELSE [ file |-> [ ZeroFile EXCEPT !.formatTag = formatTag,
                                          !.samplesPerSec = samplesPerSec,
                                          !.channels = ch,
                                          !.bitsPerSample = bits,
                                          !.blockAlign = blockAlign,
                                          !.avgBytesPerSec = MulU32(samplesPerSec, blockAlign) ],
               err |-> Nil ]

\* accessors
FormatTag(v) == v.formatTag
Length(v) == v.length
Bytes(v) == v.data

\* v.Duration(): [seconds, panic]; the time.Duration returned is seconds
\* times time.Second (an int64 of nanoseconds, which a uint32 of seconds
\* does not overflow); the division panics on a zero block align
Duration(v) ==
    IF v.blockAlign = 0 THEN [ seconds |-> 0, panic |-> TRUE ]
    ELSE [ seconds |-> Length(v) \div v.blockAlign, panic |-> FALSE ]

(***************************************************************************)
(* Sequential Read and Write.                                              *)
(***************************************************************************)
\* the loop of Read from index i on, p the bytes stored so far
RECURSIVE ReadLoop(_, _, _, _)
ReadLoop(v, size, i, p) ==
    IF i >= size THEN [ file |-> v, p |-> p, n |-> size, err |-> Nil, panic |-> FALSE ]
    ELSE IF v.offset >= Length(v)
         THEN [ file |-> v, p |-> p, n |-> i, err |-> EOF, panic |-> FALSE ]
    ELSE IF v.offset >= Len(v.data)
         THEN [ file |-> v, p |-> p, n |-> i, err |-> Nil, panic |-> TRUE ]
    ELSE ReadLoop([ v EXCEPT !.offset = v.offset + 1 ], size, i + 1,
                  Append(p, v.data[v.offset + 1]))

\* v.Read(p) with len(p) = size
Read(v, size) == ReadLoop(v, size, 0, << >>)

\* Write that counts the call, not the bytes
WriteCountsCalls(v, b) ==
    [ file |-> [ v EXCEPT !.data = v.data \o b, !.length = AddU32(v.length, 1) ],
      n |-> Len(b), err |-> Nil ]

\* v.Write(b)
Write(v, b) ==
    [ file |-> [ v EXCEPT !.data = v.data \o b, !.length = AddU32(v.length, Len(b)) ],
      n |-> Len(b), err |-> Nil ]

(***************************************************************************)
(* The container codec.                                                    *)
(***************************************************************************)
\* what io.NewSectionReader(reader, off, n) yields: the bytes of the stream
\* at off .. off+n-1 that exist
Section(stream, off, n) == SubSeq(stream, off + 1, Min(Len(stream), off + n))

\* binary.Read of a uint16 / uint32 at off into a field holding old: a
\* section that is short leaves the field as it was (the error is dropped)
ReadU16(stream, off, old) ==
    IF Len(stream) >= off + 2 THEN GetU16(Section(stream, off, 2)) ELSE old

ReadU32(stream, off, old) ==
    IF Len(stream) >= off + 4 THEN GetU32(Section(stream, off, 4)) ELSE old

\* the payload length read right after the fact chunk
LengthAt72(formatTag) == IF formatTag = WAVE_FORMAT_PCM THEN 40 ELSE 72

\* where Unmarshal reads the payload length, by format tag
LengthAt(formatTag) == IF formatTag = WAVE_FORMAT_PCM THEN 40 ELSE 76

\* the payload read from where the length field is
DataAt76(formatTag) == IF formatTag = WAVE_FORMAT_PCM THEN 44 ELSE 76

\* where Unmarshal reads the payload, by format tag
DataAt(formatTag) == IF formatTag = WAVE_FORMAT_PCM THEN 44 ELSE 80

\* the format tag check of Unmarshal
ValidTag(formatTag) == formatTag = WAVE_FORMAT_PCM \/ formatTag = WAVE_FORMAT_EXTENSIBLE

\* Unmarshal(stream, audio): [file, err], file the target after the call
Unmarshal(stream, audio) ==
    IF audio = NilFile THEN [ file |-> NilFile, err |-> Error ]
    ELSE
    LET formatTag == ReadU16(stream, 20, audio.formatTag)
        length    == ReadU32(stream, LengthAt(formatTag), audio.length)
    IN  IF ~ValidTag(formatTag)
        THEN [ file |-> [ audio EXCEPT !.formatTag = formatTag ], err |-> Error ]
        ELSE [ file |-> [ audio EXCEPT
                   !.formatTag      = formatTag,
                   !.channels       = ReadU16(stream, 22, audio.channels),
                   !.samplesPerSec  = ReadU32(stream, 24, audio.samplesPerSec),
                   !.avgBytesPerSec = ReadU32(stream, 28, audio.avgBytesPerSec),
                   !.blockAlign     = ReadU16(stream, 32, audio.blockAlign),
                   !.bitsPerSample  = ReadU16(stream, 34, audio.bitsPerSample),
                   !.length         = length,
                   !.data           = Section(stream, DataAt(formatTag), length) ],
               err |-> Nil ]

\* the literal tags and the sub-format GUID Marshal writes
TagRIFF == << 82, 73, 70, 70 >>
TagWAVEfmt == << 87, 65, 86, 69, 102, 109, 116, 32 >>
TagFact == << 102, 97, 99, 116 >>
TagData == << 100, 97, 116, 97 >>
SubFormatGUID == << 1, 0, 0, 0, 0, 0, 16, 0, 128, 0, 0, 170, 0, 56, 155, 113 >>

getChannelMask(c) ==
    IF c = 1 THEN 4
    ELSE IF c = 2 THEN 3
    ELSE IF c = 4 THEN 51
    ELSE IF c = 6 THEN 63
    ELSE IF c = 8 THEN 1599
    ELSE 0

\* the extension Marshal writes after the six fields of an EXTENSIBLE header
ExtensibleHeader(v) ==
    PutU16(22) \o PutU16(v.bitsPerSample) \o PutU32(getChannelMask(v.channels))
    \o SubFormatGUID \o TagFact \o PutU32(4) \o PutU32(v.length \div v.blockAlign)

\* Marshal(v): [stream, err, panic]
Marshal(v) ==
    IF ~ValidTag(v.formatTag)
    THEN [ stream |-> << >>, err |-> Error, panic |-> FALSE ]
    ELSE IF v.formatTag = WAVE_FORMAT_EXTENSIBLE /\ v.blockAlign = 0
    THEN [ stream |-> << >>, err |-> Nil, panic |-> TRUE ]
    ELSE [ stream |->
               TagRIFF
               \o PutU32(AddU32(v.length, IF v.formatTag = WAVE_FORMAT_PCM THEN 36 ELSE 72))
               \o TagWAVEfmt
               \o PutU32(IF v.formatTag = WAVE_FORMAT_PCM THEN 16 ELSE 40)
               \o PutU16(v.formatTag) \o PutU16(v.channels)
               \o PutU32(v.samplesPerSec) \o PutU32(v.avgBytesPerSec)
               \o PutU16(v.blockAlign) \o PutU16(v.bitsPerSample)
               \o (IF v.formatTag = WAVE_FORMAT_EXTENSIBLE THEN ExtensibleHeader(v) ELSE << >>)
               \o TagData \o PutU32(v.length) \o v.data,
           err |-> Nil, panic |-> FALSE ]

(***************************************************************************)
(* The sample conversion.                                                  *)
(***************************************************************************)
\* a * b in int32 (wraps): schoolbook multiplication of the two's complement
\* bytes, the carry dropped after the fourth byte
MulInt32(x, y) ==
    LET a  == PutU32(x)
        b  == PutU32(y)
        c1 == a[1] * b[1]
        c2 == a[1] * b[2] + a[2] * b[1] + (c1 \div 256)
        c3 == a[1] * b[3] + a[2] * b[2] + a[3] * b[1] + (c2 \div 256)
        c4 == a[1] * b[4] + a[2] * b[3] + a[3] * b[2] + a[4] * b[1] + (c3 \div 256)
    IN  Int32(<< c1 % 256, c2 % 256, c3 % 256, c4 % 256 >>)

\* v.Samples(): [n, panic]; both divisions panic on a zero divisor
Samples(v) ==
    IF v.channels = 0 THEN [ n |-> 0, panic |-> TRUE ]
    ELSE IF v.blockAlign \div v.channels = 0 THEN [ n |-> 0, panic |-> TRUE ]
    ELSE [ n |-> v.length \div (v.blockAlign \div v.channels), panic |-> FALSE ]

\* binary.Read(bytes.NewBuffer(data), binary.LittleEndian, &s) for a slice s
\* of n zeroed elements of width bytes each: element i afterwards, as bytes
\* (a buffer that is too short leaves s as it was; the error is dropped)
BinaryRead(data, n, width, i) ==
    IF Len(data) >= n * width
    THEN SubSeq(data, (i - 1) * width + 1, i * width)
    ELSE [ k \in 1 .. width |-> 0 ]

\* fromS16ToInt32s with the scale of the 24-bit conversion
fromS16Scale8(v) ==
    LET s == Samples(v)
    IN  IF s.panic THEN [ out |-> << >>, panic |-> TRUE ]
        ELSE [ out |-> [ i \in 1 .. s.n |->
                           MulInt32(Int16(BinaryRead(v.data, s.n, 2, i)), 256) ],
               panic |-> FALSE ]

fromS8ToInt32s(v) ==
    LET s == Samples(v)
    IN  IF s.panic THEN [ out |-> << >>, panic |-> TRUE ]
        ELSE [ out |-> [ i \in 1 .. s.n |->
                           MulInt32(Int8(BinaryRead(v.data, s.n, 1, i)), 16777216) ],
               panic |-> FALSE ]

fromS16ToInt32s(v) ==
    LET s == Samples(v)
    IN  IF s.panic THEN [ out |-> << >>, panic |-> TRUE ]
        ELSE [ out |-> [ i \in 1 .. s.n |->
                           MulInt32(Int16(BinaryRead(v.data, s.n, 2, i)), 65536) ],
               panic |-> FALSE ]

\* the loop of fromS24ToInt32s from index i on: it stores the three bytes
\* of a sample at n+i .. n+i+2 of data (indices from 0), n = i/3 + 1
RECURSIVE S24Loop(_, _, _)
S24Loop(v, i, data) ==
    IF i >= Length(v) THEN [ data |-> data, panic |-> FALSE ]
    ELSE LET n == (i \div 3) + 1
         IN  IF i + 2 >= Len(v.data) \/ n + i + 2 >= Len(data)
             THEN [ data |-> data, panic |-> TRUE ]
             ELSE S24Loop(v, i + 3,
                          [ data EXCEPT ![n + i + 1] = v.data[i + 1],
                                        ![n + i + 2] = v.data[i + 2],
                                        ![n + i + 3] = v.data[i + 3] ])

fromS24ToInt32s(v) ==
    LET s == Samples(v)
    IN  IF s.panic THEN [ out |-> << >>, panic |-> TRUE ]
        ELSE LET l == S24Loop(v, 0, [ k \in 1 .. s.n * 4 |-> 0 ])
             IN  IF l.panic THEN [ out |-> << >>, panic |-> TRUE ]
                 ELSE [ out |-> [ i \in 1 .. s.n |->
                                    MulInt32(Int32(BinaryRead(l.data, s.n, 4, i)), 256) ],
                        panic |-> FALSE ]

fromS32ToInt32s(v) ==
    LET s == Samples(v)
    IN  IF s.panic THEN [ out |-> << >>, panic |-> TRUE ]
        ELSE [ out |-> [ i \in 1 .. s.n |-> Int32(BinaryRead(v.data, s.n, 4, i)) ],
               panic |-> FALSE ]

\* v.Int32s(): [out, panic]
Int32s(v) ==
    CASE v.bitsPerSample = 8  -> fromS8ToInt32s(v)
      [] v.bitsPerSample = 16 -> fromS16ToInt32s(v)
      [] v.bitsPerSample = 24 -> fromS24ToInt32s(v)
      [] v.bitsPerSample = 32 -> fromS32ToInt32s(v)
      [] OTHER -> [ out |-> << >>, panic |-> FALSE ]

\* float64(x) / scale for an int32 x and scale = 1 << 31: the quotient is
\* exact in float64, and is held as the fraction num / 2^exp
Float64(x) == [ num |-> x, exp |-> 31 ]

\* v.Float64s(): [out, panic]; it takes Samples() first, then Int32s(), and
\* indexes the values of Int32s() up to Samples()
Float64s(v) ==
    LET s   == Samples(v)
        s32 == Int32s(v)
    IN  IF s.panic \/ s32.panic THEN [ out |-> << >>, panic |-> TRUE ]
        ELSE IF s.n > Len(s32.out) THEN [ out |-> << >>, panic |-> TRUE ]
        ELSE [ out |-> [ i \in 1 .. s.n |-> Float64(s32.out[i]) ], panic |-> FALSE ]

(***************************************************************************)
(* The inputs of the calls.                                                *)
(***************************************************************************)
MaxData == 2        \* Write is called while the payload stays this short
MaxRead == 2        \* the longest buffer given to Read
MaxPayload == 2     \* the longest payload of an input stream
MaxDecodes == 2     \* the program calls Unmarshal this often at most
MaxSamples == 2     \* the most samples of a payload that is converted

\* the sequences over S of length 0 .. n
RECURSIVE SeqsUpTo(_, _)
SeqsUpTo(S, n) ==
    IF n = 0 THEN { << >> }
    ELSE LET shorter == SeqsUpTo(S, n - 1)
         IN  shorter \cup { Append(s, x) : s \in { t \in shorter : Len(t) = n - 1 }, x \in S }

\* the payloads of the input streams, and the slices given to Write
Payloads == SeqsUpTo({ 0, 255 }, MaxPayload)
Chunks == { << >>, << 1 >>, << 2, 3 >> }

\* the arguments (samplesPerSec, bitsPerSample, channels) given to New;
\* three make the uint16 and uint32 products of New wrap, and the last four
\* are the other channel counts of 24-bit Files
NewArgs ==
    ({ 8000 } \X { -8, 0, 7, 8, 16, 17, 24, 40 } \X { 0, 1, 2 })
    \cup { << 1048577, 8, 8192 >>, << 8000, 16, 8192 >>, << 8000, 8, -1 >> }
    \cup ({ 8000 } \X { 24 } \X { 3, 4, 6, 8 })

\* the few of them given to New by the program that goes on to read and write
FewNewArgs == { << 8000, 16, 2 >>, << 8000, 24, 2 >>, << 8000, 24, 0 >>, << 8000, 7, 1 >> }

\* a RIFF/WAVE file in the fixed-offset profile: header h, the payload
\* length field holding declared, then the payload
WavFile(h, declared, payload) ==
    LET ext == h.formatTag = WAVE_FORMAT_EXTENSIBLE
    IN  TagRIFF \o PutU32(declared + (IF ext THEN 72 ELSE 36))
        \o TagWAVEfmt \o PutU32(IF ext THEN 40 ELSE 16)
        \o PutU16(h.formatTag) \o PutU16(h.channels)
        \o PutU32(h.samplesPerSec) \o PutU32(h.avgBytesPerSec)
        \o PutU16(h.blockAlign) \o PutU16(h.bitsPerSample)
        \o (IF ext
            THEN PutU16(22) \o PutU16(h.validBits) \o PutU32(h.channelMask)
                 \o SubFormatGUID \o TagFact \o PutU32(4)
                 \o PutU32(IF h.blockAlign = 0 THEN 0 ELSE declared \div h.blockAlign)
            ELSE << >>)
        \o TagData \o PutU32(declared) \o payload

\* a header whose block align and average byte rate follow from the rest
Header(formatTag, channels, samplesPerSec, bitsPerSample, validBits, channelMask) ==
    [ formatTag |-> formatTag, channels |-> channels, samplesPerSec |-> samplesPerSec,
      avgBytesPerSec |-> samplesPerSec * ((channels * bitsPerSample) \div 8),
      blockAlign |-> (channels * bitsPerSample) \div 8, bitsPerSample |-> bitsPerSample,
      validBits |-> validBits, channelMask |-> channelMask ]

\* PCM headers, and EXTENSIBLE headers with several valid-bits and channel masks
PCMHeaders ==
    { Header(WAVE_FORMAT_PCM, 1, 8000, 8, 8, 0), Header(WAVE_FORMAT_PCM, 2, 8000, 16, 16, 0) }

ExtensibleHeaders ==
    { Header(WAVE_FORMAT_EXTENSIBLE, c, 8000, 24, x[1], x[2]) :
        c \in { 2, 3 }, x \in { << 24, 3 >>, << 24, 0 >>, << 24, 7 >>, << 20, 3 >> } }

\* headers a decoder may meet all the same: fields that do not agree, and
\* a format tag that is neither PCM nor EXTENSIBLE (3: IEEE float)
OddHeaders ==
    { [ Header(WAVE_FORMAT_EXTENSIBLE, 2, 8000, 24, 24, 3) EXCEPT !.blockAlign = 0 ],
      [ Header(WAVE_FORMAT_PCM, 2, 8000, 16, 16, 0) EXCEPT !.blockAlign = 2, !.avgBytesPerSec = 1 ],
      Header(3, 1, 8000, 32, 32, 0) }

\* An input stream is named by what it is made of: the first cut bytes of
\* the file with header h, length field declared and the payload.  A cut of
\* Whole, the length of the longest file, leaves the file whole.
Whole == 80 + MaxPayload + 1
Input(h, declared, payload, cut) ==
    [ h |-> h, declared |-> declared, payload |-> payload, cut |-> cut ]

MakeStream(d) ==
    LET w == WavFile(d.h, d.declared, d.payload) IN SubSeq(w, 1, Min(Len(w), d.cut))

\* the streams given to Unmarshal: whole files, files that end before the
\* declared payload does, and files cut short inside the header
Streams ==
    { Input(h, Len(p), p, Whole) : h \in PCMHeaders \cup ExtensibleHeaders, p \in Payloads }
    \cup { Input(h, Len(p) + 1, p, Whole) :
             h \in { Header(WAVE_FORMAT_PCM, 1, 8000, 8, 8, 0),
                     Header(WAVE_FORMAT_EXTENSIBLE, 2, 8000, 24, 24, 3) },
             p \in Payloads }
    \cup { Input(h, Len(p), p, Whole) : h \in OddHeaders, p \in { << >>, << 0, 255 >> } }
    \cup { Input(Header(WAVE_FORMAT_PCM, 1, 8000, 8, 8, 0), 1, << 255 >>, k) : k \in { 0, 21, 42 } }

\* the few of them given to Unmarshal by the program that goes on to read
\* and write, and that decodes into its File more than once
FewStreams ==
    { Input(Header(WAVE_FORMAT_PCM, 1, 8000, 8, 8, 0), n, << 0, 255 >>, Whole) : n \in { 2, 3 } }
    \cup { Input(Header(WAVE_FORMAT_PCM, 1, 8000, 8, 8, 0), 1, << 255 >>, k) : k \in { 0, 21, 42, Whole } }
    \cup { Input(Header(WAVE_FORMAT_EXTENSIBLE, 2, 8000, 24, 24, 3), n, << 255 >>, Whole) : n \in { 1, 2 } }
    \cup { Input(h, 0, << >>, Whole) : h \in OddHeaders }

\* the streams of the two Files that are copied into a third: PCM files,
\* whole and ending one byte before the declared payload does
CopyStreams ==
    { Input(Header(WAVE_FORMAT_PCM, 1, 8000, 8, 8, 0), Len(p) + more, p, Whole) :
        p \in Payloads, more \in { 0, 1 } }

\* the bytes of input d (tabulated once)
StreamTable == [ d \in Streams \cup FewStreams \cup CopyStreams |-> MakeStream(d) ]
StreamBytes(d) == StreamTable[d]

\* the samples of the payloads that are converted, width bytes each: every
\* pattern of 0x00 and 0xFF, a 1 in each byte, and the sign bit alone
SampleSet(width) ==
    { s \in SeqsUpTo({ 0, 255 }, width) : Len(s) = width }
    \cup { [ i \in 1 .. width |-> IF i = k THEN 1 ELSE 0 ] : k \in 1 .. width }
    \cup { [ i \in 1 .. width |-> IF i = width THEN 128 ELSE 0 ] }

\* the payloads of 0 .. n such samples
RECURSIVE SamplePayloads(_, _)
SamplePayloads(width, n) ==
    IF n = 0 THEN { << >> }
    ELSE LET shorter == SamplePayloads(width, n - 1)
         IN  shorter \cup { p \o s : p \in { q \in shorter : Len(q) = (n - 1) * width },
                                     s \in SampleSet(width) }

\* the Files that are converted: New(8000, bits, channels) and one Write
ConvFilesOf(bits) ==
    { Write(New(8000, bits, channels).file, p).file :
        channels \in { 1, 2 }, p \in SamplePayloads(bits \div 8, MaxSamples) }

ConvFiles == ConvFilesOf(8) \cup ConvFilesOf(16) \cup ConvFilesOf(24) \cup ConvFilesOf(32)

\* Files of a depth that is not converted: New(8000, bits, channels) with
\* 40 and 0 bits and one Write of 0, 1, 5 or 10 bytes
OddDepthFiles ==
    { Write(New(8000, bits, channels).file, p).file :
        bits \in { 0, 40 }, channels \in { 1, 2 },
        p \in { [ i \in 1 .. n |-> i ] : n \in { 0, 1, 5, 10 } } }

\* Files of a low sample rate, 16 bits: New(rate, 16, channels) and one Write
SlowFiles ==
    { Write(New(rate, 16, channels).file, p).file :
        rate \in { 1, 2 }, channels \in { 1, 2 },
        p \in { << >>, << 0, 1, 255, 255 >>, << 0, 1, 255, 255, 1, 0, 0, 128 >> } }

\* the streams of files that declare such a depth (12 bits, mono, PCM)
OddDepthStreams ==
    { Input(Header(WAVE_FORMAT_PCM, 1, 8000, 12, 12, 0), Len(p), p, Whole) :
        p \in { << >>, << 0, 255 >> } }

(***************************************************************************)
(* The program: it makes a File with &File{} (Init), obtains its content   *)
(* by New or Unmarshal, and then calls Read, Write, Marshal and Unmarshal  *)
(* on it in any order.                                                     *)
(***************************************************************************)
\* the last call: its arguments in, its results n, err and out, and pre, the
\* File as it was when the call was made
Call(op, in, n, err, out, pre) ==
    [ op |-> op, in |-> in, n |-> n, err |-> err, out |-> out, pre |-> pre ]

\* how f was obtained; prev: how it had been obtained before; fresh: the
\* target of the Unmarshal was a File no call had changed; src: the input
\* stream, kept while f is as Unmarshal left it
Obtained(how, prev, fresh, src) == [ how |-> how, prev |-> prev, fresh |-> fresh, src |-> src ]
NoInput == [ none |-> TRUE ]
NoCopy == [ none |-> TRUE ]

Fresh == origin.how = "Alloc" /\ f = ZeroFile

\* audio := &File{}
Init ==
    /\ f = ZeroFile
    /\ ret = Call("Alloc", << >>, 0, Nil, << >>, ZeroFile)
    /\ origin = Obtained("Alloc", "Alloc", TRUE, NoInput)
    /\ consumed = << >>
    /\ panicked = FALSE
    /\ decodes = 0
    /\ copy = NoCopy

CallNew(args) ==
    /\ ~panicked
    /\ Fresh
    /\ \E a \in args :
         LET r == New(a[1], a[2], a[3])
         IN  /\ f' = r.file
             /\ ret' = Call("New", a, 0, r.err, << >>, f)
    /\ origin' = Obtained("New", origin.how, FALSE, NoInput)
    /\ consumed' = << >>
    /\ UNCHANGED << panicked, decodes, copy >>

CallUnmarshal(streams) ==
    /\ ~panicked
    /\ decodes < MaxDecodes
    /\ decodes' = decodes + 1
    /\ \E d \in streams :
         LET r == Unmarshal(StreamBytes(d), f)
         IN  /\ f' = r.file
             /\ ret' = Call("Unmarshal", d, 0, r.err, << >>, f)
             /\ origin' = IF r.err = Nil THEN Obtained("Unmarshal", origin.how, Fresh, d)
                          ELSE [ origin EXCEPT !.src = NoInput ]
             /\ consumed' = IF r.err = Nil THEN << >> ELSE consumed
    /\ UNCHANGED << panicked, copy >>

CallRead ==
    /\ ~panicked
    /\ f # NilFile
    /\ \E size \in 0 .. MaxRead :
         LET r == Read(f, size)
         IN  /\ f' = r.file
             /\ ret' = Call("Read", size, r.n, r.err, r.p, f)
             /\ consumed' = consumed \o r.p
             /\ panicked' = r.panic
    /\ UNCHANGED << origin, decodes, copy >>

CallWrite ==
    /\ ~panicked
    /\ f # NilFile
    /\ \E b \in Chunks :
         /\ Len(f.data) + Len(b) <= MaxData
         /\ LET r == Write(f, b)
            IN  /\ f' = r.file
                /\ ret' = Call("Write", b, r.n, r.err, << >>, f)
    /\ origin' = [ origin EXCEPT !.src = NoInput ]
    /\ UNCHANGED << consumed, panicked, decodes, copy >>

CallMarshal ==
    /\ ~panicked
    /\ f # NilFile
    /\ LET r == Marshal(f)
       IN  /\ ret' = Call("Marshal", << >>, 0, r.err, r.stream, f)
           /\ panicked' = r.panic
    /\ UNCHANGED << f, origin, consumed, decodes, copy >>

\* The program that obtains a File and then reads, writes, encodes and
\* decodes again, in any order.
Next ==
    \/ CallNew(FewNewArgs)
    \/ CallUnmarshal(FewStreams)
    \/ CallRead
    \/ CallWrite
    \/ CallMarshal

Spec == Init /\ [][Next]_vars

\* The program that obtains a File, from any of the arguments and streams,
\* and encodes it.
NextCodec ==
    \/ CallNew(NewArgs)
    \/ Fresh /\ CallUnmarshal(Streams)
    \/ CallMarshal

SpecCodec == Init /\ [][NextCodec]_vars

(***************************************************************************)
(* The program of the README: it decodes two streams into the Files a and  *)
(* b, makes c with New from a's format, and copies a and then b into c     *)
(* with io.Copy.  f is c.                                                  *)
(***************************************************************************)
InitCopy ==
    /\ \E da, db \in CopyStreams :
         LET a == Unmarshal(StreamBytes(da), ZeroFile)
             b == Unmarshal(StreamBytes(db), ZeroFile)
             c == New(a.file.samplesPerSec, a.file.bitsPerSample, a.file.channels)
         IN  /\ a.err = Nil /\ b.err = Nil /\ c.err = Nil
             /\ f = c.file
             /\ ret = Call("New", << a.file.samplesPerSec, a.file.bitsPerSample, a.file.channels >>,
                           0, Nil, << >>, ZeroFile)
             /\ copy = [ a |-> a.file, b |-> b.file, pc |-> "a" ]
    /\ origin = Obtained("New", "Alloc", FALSE, NoInput)
    /\ consumed = << >>
    /\ panicked = FALSE
    /\ decodes = 0

\* One turn of the loop of io.Copy(c, src): src.Read(buf), then c.Write of
\* the bytes read if there are any, then the end of the copy on io.EOF.
\* ret is the last call made on a File: the Write, or else the Read.
CopyStep ==
    /\ ~panicked
    /\ copy # NoCopy
    /\ copy.pc \in { "a", "b" }
    /\ LET src == copy[copy.pc]
           r   == Read(src, MaxRead)
           w   == Write(f, r.p)
           wrote == ~r.panic /\ r.n > 0
       IN  /\ panicked' = r.panic
           /\ f' = IF wrote THEN w.file ELSE f
           /\ ret' = IF wrote THEN Call("Write", r.p, w.n, w.err, << >>, f)
                     ELSE Call("Read", MaxRead, r.n, r.err, r.p, src)
           /\ copy' = [ copy EXCEPT ![copy.pc] = r.file,
                                    !.pc = IF r.panic \/ r.err # EOF THEN @
                                           ELSE IF @ = "a" THEN "b" ELSE "done" ]
    /\ UNCHANGED << origin, consumed, decodes >>

NextCopy == CopyStep

SpecCopy == InitCopy /\ [][NextCopy]_vars

(***************************************************************************)
(* The program that converts the samples of a File.                        *)
(***************************************************************************)
InitConv ==
    /\ \/ /\ f \in ConvFiles \cup OddDepthFiles \cup SlowFiles
          /\ ret = Call("Write", f.data, Len(f.data), Nil, << >>,
                        [ f EXCEPT !.data = << >>, !.length = 0 ])
          /\ origin = Obtained("New", "Alloc", FALSE, NoInput)
       \/ \E d \in OddDepthStreams :
            LET r == Unmarshal(MakeStream(d), ZeroFile)
            IN  /\ f = r.file
                /\ ret = Call("Unmarshal", d, 0, r.err, << >>, ZeroFile)
                /\ origin = Obtained("Unmarshal", "Alloc", TRUE, NoInput)
    /\ consumed = << >>
    /\ panicked = FALSE
    /\ decodes = 0
    /\ copy = NoCopy

CallInt32s ==
    /\ ~panicked
    /\ f # NilFile
    /\ LET r == Int32s(f)
       IN  /\ ret' = Call("Int32s", << >>, 0, Nil, r.out, f)
           /\ panicked' = r.panic
    /\ UNCHANGED << f, origin, consumed, decodes, copy >>

CallFloat64s ==
    /\ ~panicked
    /\ f # NilFile
    /\ LET r == Float64s(f)
       IN  /\ ret' = Call("Float64s", << >>, 0, Nil, r.out, f)
           /\ panicked' = r.panic
    /\ UNCHANGED << f, origin, consumed, decodes, copy >>

CallDuration ==
    /\ ~panicked
    /\ f # NilFile
    /\ LET r == Duration(f)
       IN  /\ ret' = Call("Duration", << >>, 0, Nil, r.seconds, f)
           /\ panicked' = r.panic
    /\ UNCHANGED << f, origin, consumed, decodes, copy >>

NextConv ==
    \/ CallInt32s
    \/ CallFloat64s
    \/ CallDuration

SpecConv == InitConv /\ [][NextConv]_vars

(***************************************************************************)
(* Construction and the header (checked under SpecCodec).                  *)
(***************************************************************************)
\* C5: New returns an error, and no File, exactly when bitsPerSample is no
\* multiple of 8; the File it returns otherwise has format tag 0x1 for a
\* depth of at most 16 bits and 0xFFFE above, no payload and length 0.
C5_New ==
    ret.op = "New" =>
        LET bitsPerSample == ret.in[2]
        IN  /\ (ret.err # Nil) <=> (bitsPerSample % 8 # 0)
            /\ ret.err # Nil => f = NilFile
            /\ ret.err = Nil =>
                 /\ f # NilFile
                 /\ FormatTag(f) = (IF bitsPerSample <= 16 THEN 1 ELSE 65534)
                 /\ Bytes(f) = << >>
                 /\ Length(f) = 0

\* New has refused 17 bits per sample
C5_WitnessRefused == ret.op = "New" /\ ret.in[2] = 17 /\ ret.err = Error /\ f = NilFile

\* the two equations of the header, in the arithmetic of the fields
\* (block align in uint16, average byte rate in uint32)
HeaderEquations(blockAlign, avgBytesPerSec, channels, bitsPerSample, samplesPerSec) ==
    /\ blockAlign = U16(channels * bitsPerSample) \div 8
    /\ avgBytesPerSec = MulU32(samplesPerSec, blockAlign)

Consistent(v) ==
    HeaderEquations(v.blockAlign, v.avgBytesPerSec, v.channels, v.bitsPerSample, v.samplesPerSec)

\* C6 as claimed: the equations hold of every File that a successful New
\* returned or a successful Unmarshal filled.
C6_Original ==
    (f # NilFile /\ origin.how \in { "New", "Unmarshal" }) => Consistent(f)

\* C6 as amended: the equations hold of every File a successful New
\* returned; a File filled by a successful Unmarshal of a stream that holds
\* the six header fields has the stream's fields as they are, so that the
\* equations hold of it exactly when they hold of the stream's fields.
C6_Amended ==
    /\ (f # NilFile /\ origin.how = "New") => Consistent(f)
    /\ (origin.how = "Unmarshal" /\ origin.src # NoInput /\ Len(StreamBytes(origin.src)) >= 36) =>
         LET s == StreamBytes(origin.src)
         IN  /\ f.channels = s[23] + 256 * s[24]
             /\ f.blockAlign = s[33] + 256 * s[34]
             /\ f.bitsPerSample = s[35] + 256 * s[36]
             /\ f.samplesPerSec = GetU32(SubSeq(s, 25, 28))
             /\ f.avgBytesPerSec = GetU32(SubSeq(s, 29, 32))
             /\ Consistent(f) <=>
                  HeaderEquations(s[33] + 256 * s[34], GetU32(SubSeq(s, 29, 32)),
                                  s[23] + 256 * s[24], s[35] + 256 * s[36],
                                  GetU32(SubSeq(s, 25, 28)))

\* New has built a File whose uint16 and uint32 products both wrapped
C6_WitnessNew == origin.how = "New" /\ f # NilFile /\ f.channels = 8192 /\ f.samplesPerSec = 1048577

(***************************************************************************)
(* The codec (checked under SpecCodec).                                    *)
(***************************************************************************)
\* the stream the File was decoded from, and its fields by their offsets
Src == StreamBytes(origin.src)
U16At(s, off) == s[off + 1] + 256 * s[off + 2]
U32At(s, off) == s[off + 1] + 256 * s[off + 2] + 65536 * s[off + 3] + 16777216 * s[off + 4]
BytesAt(s, off, n) == [ i \in 1 .. n |-> s[off + i] ]

\* a well-formed WAV file in the fixed-offset profile: the RIFF, WAVE/fmt,
\* (fact) and data chunks at their places, every size field right and the
\* payload length field equal to the number of payload bytes present
WellFormedPCM(s) ==
    /\ Len(s) >= 44
    /\ BytesAt(s, 0, 4) = << 82, 73, 70, 70 >>
    /\ U32At(s, 4) = Len(s) - 8
    /\ BytesAt(s, 8, 8) = << 87, 65, 86, 69, 102, 109, 116, 32 >>
    /\ U32At(s, 16) = 16
    /\ U16At(s, 20) = 1
    /\ BytesAt(s, 36, 4) = << 100, 97, 116, 97 >>
    /\ U32At(s, 40) = Len(s) - 44

WellFormedExtensible(s) ==
    /\ Len(s) >= 80
    /\ BytesAt(s, 0, 4) = << 82, 73, 70, 70 >>
    /\ U32At(s, 4) = Len(s) - 8
    /\ BytesAt(s, 8, 8) = << 87, 65, 86, 69, 102, 109, 116, 32 >>
    /\ U32At(s, 16) = 40
    /\ U16At(s, 20) = 65534
    /\ U16At(s, 32) # 0
    /\ U16At(s, 36) = 22
    /\ BytesAt(s, 44, 16) = << 1, 0, 0, 0, 0, 0, 16, 0, 128, 0, 0, 170, 0, 56, 155, 113 >>
    /\ BytesAt(s, 60, 4) = << 102, 97, 99, 116 >>
    /\ U32At(s, 64) = 4
    /\ U32At(s, 68) = (Len(s) - 80) \div U16At(s, 32)
    /\ BytesAt(s, 72, 4) = << 100, 97, 116, 97 >>
    /\ U32At(s, 76) = Len(s) - 80

WellFormed(s) == WellFormedPCM(s) \/ WellFormedExtensible(s)

\* Marshal has been called on a File that Unmarshal filled, fresh, from a
\* stream, and that has not been written since
DecodedThenEncoded ==
    /\ ret.op = "Marshal"
    /\ origin.how = "Unmarshal" /\ origin.fresh /\ origin.src # NoInput

\* C1 as claimed: Unmarshal of a well-formed file into a fresh File and then
\* Marshal give the bytes of the file back.
C1_Original ==
    (DecodedThenEncoded /\ WellFormed(Src)) =>
        (~panicked /\ ret.err = Nil /\ ret.out = Src)

\* the valid-bits and channel mask fields of an EXTENSIBLE file hold what
\* Marshal derives: the bit depth, and the mask of the channel count
DerivedExtension(s) ==
    U16At(s, 20) = 65534 =>
        /\ U16At(s, 38) = U16At(s, 34)
        /\ U32At(s, 40) = (CASE U16At(s, 22) = 1 -> 4
                             [] U16At(s, 22) = 2 -> 3
                             [] U16At(s, 22) = 4 -> 51
                             [] U16At(s, 22) = 6 -> 63
                             [] U16At(s, 22) = 8 -> 1599
                             [] OTHER -> 0)

\* C1 as amended: the round trip gives the bytes back for every well-formed
\* PCM file, and for every well-formed EXTENSIBLE file whose valid-bits
\* field equals its bit depth and whose channel mask field is the mask
\* Marshal derives from the channel count (Unmarshal keeps neither field).
C1_Amended ==
    (DecodedThenEncoded /\ WellFormed(Src) /\ DerivedExtension(Src)) =>
        (~panicked /\ ret.err = Nil /\ ret.out = Src)

\* an EXTENSIBLE file with a payload has made the round trip
C1_Witness ==
    /\ DecodedThenEncoded /\ WellFormed(Src) /\ DerivedExtension(Src)
    /\ U16At(Src, 20) = 65534 /\ Len(Src) = 82 /\ ret.out = Src

\* Marshal has returned a stream
Encoded == ret.op = "Marshal" /\ ret.err = Nil /\ ~panicked

\* Unmarshal has filled the File from a stream, which is still at hand
Decoded == origin.how = "Unmarshal" /\ origin.src # NoInput

\* the layout of the payload: the length field at lengthAt and the payload
\* at dataAt, in the stream Marshal returns and in the stream Unmarshal took
PayloadLayout(lengthAt, dataAt) ==
    /\ Encoded =>
         /\ Len(ret.out) = dataAt + Len(f.data)
         /\ U32At(ret.out, lengthAt) = f.length
         /\ BytesAt(ret.out, dataAt, Len(f.data)) = f.data
    /\ (Decoded /\ Len(Src) >= dataAt) =>
         /\ f.length = U32At(Src, lengthAt)
         /\ f.data = BytesAt(Src, dataAt, Min(f.length, Len(Src) - dataAt))

\* C8 as claimed: the length field is at 40 (PCM) or 72 (EXTENSIBLE) and the
\* payload starts at 44 (PCM) or 76 (EXTENSIBLE).
C8_Original ==
    (f # NilFile /\ ValidTag(f.formatTag)) =>
        IF f.formatTag = 1 THEN PayloadLayout(40, 44) ELSE PayloadLayout(72, 76)

\* C8 as amended: the length field is at 40 (PCM) or 76 (EXTENSIBLE) and the
\* payload starts at 44 (PCM) or 80 (EXTENSIBLE): in an EXTENSIBLE file the
\* four bytes at 72 are the tag "data".
C8_Amended ==
    (f # NilFile /\ ValidTag(f.formatTag)) =>
        IF f.formatTag = 1 THEN PayloadLayout(40, 44) ELSE PayloadLayout(76, 80)

\* Marshal has encoded an EXTENSIBLE File with a payload that Unmarshal
\* had decoded
C8_Witness ==
    /\ Encoded /\ Decoded /\ f.formatTag = 65534 /\ Len(f.data) = 2
    /\ BytesAt(ret.out, 72, 4) = << 100, 97, 116, 97 >>

(***************************************************************************)
(* Read and Write (checked under Spec and SpecCopy).                       *)
(***************************************************************************)
\* f is a File that a successful New or a successful Unmarshal gave
Populated == f # NilFile /\ origin.how \in { "New", "Unmarshal" }

\* C2: in every state reached from New or a successful Unmarshal by Read and
\* Write calls, Length() equals len(Bytes()).
C2_LengthIsLenOfData == Populated => Length(f) = Len(Bytes(f))

\* C3: the Read calls on a File from New or Unmarshal return; together they
\* have delivered the first bytes of the payload, in order; none returns
\* io.EOF before Length() bytes are consumed; and every Read with a
\* non-empty buffer made once Length() bytes are consumed returns 0, io.EOF.
C3_SequentialRead ==
    Populated =>
        /\ ret.op = "Read" => ~panicked
        /\ Len(consumed) <= Len(Bytes(f))
        /\ consumed = SubSeq(Bytes(f), 1, Len(consumed))
        /\ (ret.op = "Read" /\ ret.err = EOF) => Len(consumed) >= Length(f)
        /\ (ret.op = "Read" /\ ret.in > 0 /\ Len(consumed) - ret.n >= Length(ret.pre)) =>
             (ret.n = 0 /\ ret.err = EOF)

\* C7: Unmarshal into a File that is fresh or that an earlier Unmarshal
\* filled returns a nil error only if the stream holds, at offset 20, the
\* two bytes of the format tag 0x0001 or 0xFFFE.
C7_TagIsValidated ==
    (ret.op = "Unmarshal" /\ ret.err = Nil /\ origin.prev \in { "Alloc", "Unmarshal" }) =>
        LET s == StreamBytes(ret.in)
        IN  /\ Len(s) >= 22
            /\ (s[21] + 256 * s[22]) \in { 1, 65534 }

\* C4: Write(b) returns len(b) and a nil error, appends b to the payload and
\* adds len(b) to Length(); and when a and then b have been copied into c,
\* c's payload is a's followed by b's, and c.Length() their lengths' sum.
C4_Write ==
    /\ ret.op = "Write" =>
         /\ ret.n = Len(ret.in) /\ ret.err = Nil
         /\ Bytes(f) = Bytes(ret.pre) \o ret.in
         /\ Length(f) = Length(ret.pre) + Len(ret.in)
    /\ (copy # NoCopy /\ copy.pc = "done") =>
         /\ Bytes(f) = Bytes(copy.a) \o Bytes(copy.b)
         /\ Length(f) = Length(copy.a) + Length(copy.b)

\* two bytes of a and one of b have been copied, in a full and a short chunk
C4_Witness ==
    /\ copy # NoCopy /\ copy.pc = "done"
    /\ Len(Bytes(copy.a)) = 2 /\ Len(Bytes(copy.b)) = 1
    /\ ret.op = "Write" /\ Len(ret.in) = 1 /\ Length(f) = 3

(***************************************************************************)
(* The sample conversion (checked under SpecConv).                         *)
(***************************************************************************)
\* the File has the depth bits, at least one channel, a consistent header, a
\* length that is the payload's, and whole samples; Int32s has been called
Converted(bits) ==
    /\ ret.op = "Int32s"
    /\ f.bitsPerSample = bits
    /\ f.channels >= 1
    /\ f.blockAlign = (f.channels * bits) \div 8
    /\ Length(f) = Len(Bytes(f))
    /\ Len(Bytes(f)) % (bits \div 8) = 0

\* byte k (from 0) of sample i (from 1) of the payload, width bytes a sample
SampleByte(i, width, k) == Bytes(f)[(i - 1) * width + k + 1]
Signed(byte) == IF byte >= 128 THEN byte - 256 ELSE byte

\* C9: for 24 bits, Int32s returns length/3 values, value i the 24-bit
\* little-endian sample i, sign-extended and multiplied by 2^8.
C9_Int32sOf24 ==
    Converted(24) =>
        /\ ~panicked
        /\ Len(ret.out) = Length(f) \div 3
        /\ \A i \in 1 .. Len(ret.out) :
             ret.out[i] = 256 * (SampleByte(i, 3, 0) + 256 * SampleByte(i, 3, 1)
                                 + 65536 * Signed(SampleByte(i, 3, 2)))

\* C10: for 8, 16 and 32 bits, Int32s returns Samples() =
\* length / (block_align / channels) values, value i the little-endian
\* signed sample i multiplied by 2^24, 2^16 and 1.
C10_Int32s ==
    /\ Converted(8) =>
         /\ ~panicked
         /\ Len(ret.out) = Length(f) \div (f.blockAlign \div f.channels)
         /\ \A i \in 1 .. Len(ret.out) :
              ret.out[i] = 16777216 * Signed(SampleByte(i, 1, 0))
    /\ Converted(16) =>
         /\ ~panicked
         /\ Len(ret.out) = Length(f) \div (f.blockAlign \div f.channels)
         /\ \A i \in 1 .. Len(ret.out) :
              ret.out[i] = 65536 * (SampleByte(i, 2, 0) + 256 * Signed(SampleByte(i, 2, 1)))
    /\ Converted(32) =>
         /\ ~panicked
         /\ Len(ret.out) = Length(f) \div (f.blockAlign \div f.channels)
         /\ \A i \in 1 .. Len(ret.out) :
              ret.out[i] = SampleByte(i, 4, 0) + 256 * SampleByte(i, 4, 1)
                           + 65536 * SampleByte(i, 4, 2)
                           + 16777216 * Signed(SampleByte(i, 4, 3))

\* the 16-bit samples 256 and -1 of a stereo File have been converted
C10_Witness ==
    /\ Converted(16) /\ f.channels = 2
    /\ Bytes(f) = << 0, 1, 255, 255 >>
    /\ ret.out = << 16777216, -65536 >>

\* C11: for a File whose bits_per_sample is not 8, 16, 24 or 32, Int32s and
\* Float64s both return an empty sequence, and neither panics.
C11_UnsupportedDepth ==
    (ret.op \in { "Int32s", "Float64s" } /\ f.bitsPerSample \notin { 8, 16, 24, 32 }) =>
        (~panicked /\ ret.out = << >>)

\* C12: for a File with a consistent header and samples_per_sec > 0,
\* Duration() is (Length() / BlockAlign()) / SamplesPerSec() seconds: the
\* seconds returned times the sample rate are the frames (or, the division
\* taken as Go's, the seconds are the frames divided by the rate).
C12_Duration ==
    (/\ ret.op = "Duration"
     /\ Consistent(f) /\ f.channels >= 1 /\ f.bitsPerSample \in { 8, 16, 24, 32 }
     /\ Length(f) = Len(Bytes(f))
     /\ f.samplesPerSec > 0) =>
        /\ ~panicked
        /\ \/ ret.out * f.samplesPerSec = Length(f) \div f.blockAlign
           \/ ret.out = (Length(f) \div f.blockAlign) \div f.samplesPerSec

(***************************************************************************)
(* The channel mask, failed decodes, truncated streams and the read cursor *)
(* (checked under SpecCodec and Spec).                                     *)
(***************************************************************************)
\* the mask at offset 40 of the stream Marshal returned is that of the
\* channel count
MaskWritten ==
    /\ ret.err = Nil
    /\ Len(ret.out) >= 44
    /\ U32At(ret.out, 40) = (CASE f.channels = 1 -> 4
                               [] f.channels = 2 -> 3
                               [] f.channels = 4 -> 51
                               [] f.channels = 6 -> 63
                               [] f.channels = 8 -> 1599
                               [] OTHER -> 0)

\* C13: for every File whose format tag is EXTENSIBLE, Marshal writes at
\* offset 40 the channel mask 0x4, 0x3, 0x33, 0x3F, 0x63F for 1, 2, 4, 6, 8
\* channels, and 0 for every other channel count.
C13_ChannelMask ==
    (ret.op = "Marshal" /\ f # NilFile /\ f.formatTag = 65534) =>
        (~panicked /\ MaskWritten)

\* C14: whenever Unmarshal returns an error for a non-nil target File, the
\* File is after the call as it was before it, in every field.
C14_NoPartialSuccess ==
    (ret.op = "Unmarshal" /\ ret.err # Nil /\ ret.pre # NilFile) => f = ret.pre

\* the whole header of input d is there, and fewer payload bytes than its
\* length field declares
Truncated(d) == d.cut = Whole /\ Len(d.payload) < d.declared

\* C15: Unmarshal of a buffer shorter than its declared payload returns no
\* error and stores the payload that is there, and no Read or Marshal call
\* made on that File afterwards panics.
C15_LenientDecode ==
    (Decoded /\ origin.fresh /\ Truncated(origin.src)) =>
        /\ ret.op = "Unmarshal" => (ret.err = Nil /\ Bytes(f) = origin.src.payload)
        /\ ~panicked

\* C16: the read cursor of a File from New or Unmarshal stays within
\* 0 .. Length(); Write and Marshal leave it as it is; and after a
\* successful Unmarshal it is at the first byte of the payload.
C16_Cursor ==
    Populated =>
        /\ 0 <= f.offset /\ f.offset <= Length(f)
        /\ ret.op \in { "Write", "Marshal" } => f.offset = ret.pre.offset
        /\ (ret.op = "Unmarshal" /\ ret.err = Nil /\ Len(Bytes(f)) > 0) => f.offset = 0

====
